---- MODULE Spec2Model ----
(***************************************************************************)
(* The revision workflow of the ESG proposal designer:                     *)
(*   - the LangGraph state graph built by ESGProposalDesigner.__init__     *)
(*     (planner -> drafter -> {finalizer | END}, finalizer -> drafter,     *)
(*     compiled with a checkpointer and interrupt_after every node),       *)
(*   - the stage functions plan_node / draft_node / finalize_node,         *)
(*   - the session controller ESGProposalGUI (run_agent, get_disp_state,   *)
(*     get_state, update_hist_pd, find_config, copy_state, switch_thread,  *)
(*     modify_state).                                                      *)
(***************************************************************************)
EXTENDS Integers, Sequences, FiniteSets, TLC

\* ---------------------------------------------------------------- bounds
\* The model explores three kinds of session, each within its own budget
\* of start-new-run calls, graph invocations, update_state calls and
\* failing generation calls.
\* a long run: one thread driven up to the step bound
RunSteps == 10
RunFailures == 1
\* an editing session: one thread, restored and overwritten
EditSteps == 3
EditUpdates == 1
\* a session over several threads
SessionThreads == 3
SessionSteps == 3
\* a session of a caller that passes keys no editor tab passes
KeySteps == 2
KeyUpdates == 1
KeyViews == 1
\* a session of edits and restores right after the planner
RewindSteps == 1
RewindUpdates == 2
\* two run_agent calls under way at once
OverlapThreads == 2
OverlapSteps == 3
\* the integers a stored count or revision_number is drawn from, when
\* get_disp_state is checked on its own
MaxStored == 2

\* ------------------------------------------------------ program constants
max_iterations == 10
DefaultMaxRevisions == 2
DefaultRevisionNumber == 0

Nodes == {"planner", "drafter", "finalizer"}
START == "__start__"

\* the texts an external generation call may return, per stage
PlanTexts == {"plan text"}
DraftTexts == {"draft text"}
CritiqueTexts == {"critique text"}
\* what a working retriever hands back: one formatted document
FoundDocs == <<[content |-> "passage", source |-> "ref.pdf"]>>
\* the texts a user may type into an editor tab, and the proposal titles
Edits == {"edited text", "other text"}
Topics == {"Test Proposal"}
\* the interruption sets a caller may tick: none, the planner, the drafter,
\* every node
StopSets == {{}, {"planner"}, {"drafter"}, Nodes}
\* every thread id the controller can come to hold
ThreadKeys == -1..(2 * SessionThreads)

\* ------------------------------------------------------------ AgentState
\* A checkpoint's channel values: `present` is FALSE for the empty dict {}
\* of a thread that has not received its input yet.
\* `strs` holds a pair <<key, text>> for every int field that holds a str
\* instead (modify_state stores what it is given); the int of such a field
\* is kept but is not the stored value.
AgentState(task, lnode, plan, draft, critique, rev, maxrev, count, docs) ==
    [present |-> TRUE, task |-> task, lnode |-> lnode, plan |-> plan,
     draft |-> draft, critique |-> critique, revision_number |-> rev,
     max_revisions |-> maxrev, count |-> count, retrieved_docs |-> docs,
     strs |-> {}]

EmptyValues ==
    [present |-> FALSE, task |-> "", lnode |-> "", plan |-> "", draft |-> "",
     critique |-> "", revision_number |-> 0, max_revisions |-> 0, count |-> 0,
     retrieved_docs |-> <<>>, strs |-> {}]

\* the keys of AgentState
StateKeys ==
    {"task", "lnode", "plan", "draft", "critique", "revision_number",
     "max_revisions", "count", "retrieved_docs"}

\* whether the value stored under an int key is a str, and that str
IsStr(state, key) == \E p \in state.strs : p[1] = key
StrOf(state, key) == (CHOOSE p \in state.strs : p[1] = key)[2]

\* a stage hands on state.get("revision_number") and
\* state.get("max_revisions") as they are: a str stays a str
HandOn(state, update) == [update EXCEPT !.strs = state.strs]

\* dict.get(key, default)
Get(values, key, default) == IF values.present THEN values[key] ELSE default

\* Python truthiness of a str
Truthy(s) == s # ""

\* ------------------------------------------------------- stage functions
\* Each returns [raised |-> BOOLEAN, update |-> the dict the node returns].
NoUpdate == EmptyValues

\* self.retriever is "unset" when __init__ returned before assigning it
\* (reading it raises), "failing" when get_relevant_documents raises (caught:
\* no documents), "working" when it returns documents
retrieve_relevant_documents(retr) ==
    CASE retr = "unset" -> [raised |-> TRUE, docs |-> <<>>]
      [] retr = "failing" -> [raised |-> FALSE, docs |-> <<>>]
      [] OTHER -> [raised |-> FALSE, docs |-> FoundDocs]

plan_node(state, retr, llmOk, text) ==
    LET r == retrieve_relevant_documents(retr) IN
    IF r.raised \/ ~llmOk THEN [raised |-> TRUE, update |-> NoUpdate]
    ELSE [raised |-> FALSE,
          update |-> HandOn(state,
                       AgentState(Get(state, "task", ""), "planner", text,
                                  Get(state, "draft", "no draft yet"),
                                  Get(state, "critique", "no critique yet"),
                                  Get(state, "revision_number", 0),
                                  Get(state, "max_revisions", 2),
                                  1, r.docs))]

draft_node_without_docs_on_error(state, llmOk, text) ==
    [raised |-> IsStr(state, "revision_number"),
     update |->
       HandOn(state,
         IF llmOk
         THEN AgentState(Get(state, "task", ""), "drafter",
                         Get(state, "plan", ""),
                         text, Get(state, "critique", "no critique yet"),
                         Get(state, "revision_number", 0) + 1,
                         Get(state, "max_revisions", 2),
                         Get(state, "count", 0) + 1,
                         Get(state, "retrieved_docs", <<>>))
         ELSE AgentState(Get(state, "task", ""), "drafter",
                         Get(state, "plan", ""),
                         "Error occurred during content generation.",
                         Get(state, "critique", ""),
                         Get(state, "revision_number", 0) + 1,
                         Get(state, "max_revisions", 2),
                         Get(state, "count", 0) + 1,
                         <<>>))]

\* revision_number + 1 on a str raises TypeError in the try branch and
\* again in the except branch: the node raises
draft_node(state, llmOk, text) ==
    [raised |-> IsStr(state, "revision_number"),
     update |->
       HandOn(state,
         IF llmOk
         THEN AgentState(Get(state, "task", ""), "drafter",
                         Get(state, "plan", ""),
                         text, Get(state, "critique", "no critique yet"),
                         Get(state, "revision_number", 0) + 1,
                         Get(state, "max_revisions", 2),
                         Get(state, "count", 0) + 1,
                         Get(state, "retrieved_docs", <<>>))
         ELSE AgentState(Get(state, "task", ""), "drafter",
                         Get(state, "plan", ""),
                         "Error occurred during content generation.",
                         Get(state, "critique", ""),
                         Get(state, "revision_number", 0) + 1,
                         Get(state, "max_revisions", 2),
                         Get(state, "count", 0) + 1,
                         Get(state, "retrieved_docs", <<>>)))]

finalize_node_counting_revision(state, llmOk, text) ==
    [raised |-> FALSE,
     update |->
       HandOn(state,
         AgentState(Get(state, "task", ""), "finalizer",
                    Get(state, "plan", ""),
                    Get(state, "draft", ""),
                    IF llmOk THEN text
                    ELSE "Error occurred during finalization.",
                    Get(state, "revision_number", 0) + 1,
                    Get(state, "max_revisions", 2),
                    Get(state, "count", 0) + 1,
                    Get(state, "retrieved_docs", <<>>)))]

finalize_node_clearing_revision(state, llmOk, text) ==
    [raised |-> FALSE,
     update |->
       HandOn(state,
         AgentState(Get(state, "task", ""), "finalizer",
                    Get(state, "plan", ""),
                    Get(state, "draft", ""),
                    IF llmOk THEN text
                    ELSE "Error occurred during finalization.",
                    0,
                    Get(state, "max_revisions", 2),
                    Get(state, "count", 0) + 1,
                    Get(state, "retrieved_docs", <<>>)))]
finalize_node(state, llmOk, text) ==
    [raised |-> FALSE,
     update |->
       HandOn(state,
         AgentState(Get(state, "task", ""), "finalizer",
                    Get(state, "plan", ""),
                    Get(state, "draft", ""),
                    IF llmOk THEN text
                    ELSE "Error occurred during finalization.",
                    Get(state, "revision_number", 0),
                    Get(state, "max_revisions", 2),
                    Get(state, "count", 0) + 1,
                    Get(state, "retrieved_docs", <<>>)))]

\* str > str compares the texts as Python orders them
TextRank(text) ==
    CASE text = "" -> 0 [] text = "edited text" -> 1 [] OTHER -> 2

\* revision_number > max_revisions: [raised |-> TypeError (an int against
\* a str), greater |-> the outcome of the comparison]
RevisionsExceeded(state) ==
    LET rev_str == IsStr(state, "revision_number")
        max_str == IsStr(state, "max_revisions")
    IN [raised |-> rev_str # max_str,
        greater |->
          IF rev_str /\ max_str
          THEN TextRank(StrOf(state, "revision_number"))
                 > TextRank(StrOf(state, "max_revisions"))
          ELSE Get(state, "revision_number", 0)
                 > Get(state, "max_revisions", 2)]

should_continue_at_limit(state) ==
    IF RevisionsExceeded(state).raised THEN "__end__"
    ELSE IF Get(state, "revision_number", 0) >= Get(state, "max_revisions", 2)
    THEN "__end__" ELSE "finalizer"

should_continue_failing_open(state) ==
    IF RevisionsExceeded(state).raised THEN "finalizer"
    ELSE IF RevisionsExceeded(state).greater THEN "__end__" ELSE "finalizer"

\* the routing predicate of the conditional edge leaving the drafter; an
\* exception in it ends the run
should_continue(state) ==
    IF RevisionsExceeded(state).raised THEN "__end__"
    ELSE IF RevisionsExceeded(state).greater THEN "__end__" ELSE "finalizer"

NextAfter_skipping_drafter(node, state) ==
    CASE node = START -> <<"planner">>
      [] node = "planner" -> <<"finalizer">>
      [] node = "finalizer" -> <<"drafter">>
      [] node = "drafter" ->
           IF should_continue(state) = "finalizer" THEN <<"finalizer">> ELSE <<>>
      [] OTHER -> <<>>

\* the edges of the compiled graph: the tuple StateSnapshot.next after a
\* write made as `node` left the channel values `state`
NextAfter(node, state) ==
    CASE node = START -> <<"planner">>
      [] node = "planner" -> <<"drafter">>
      [] node = "finalizer" -> <<"drafter">>
      [] node = "drafter" ->
           IF should_continue(state) = "finalizer" THEN <<"finalizer">> ELSE <<>>
      [] OTHER -> <<>>

\* the channels of AgentState: every key keeps the last value written,
\* count is Annotated[int, operator.add] and adds the written value
ApplyWrites(cur, upd) ==
    [upd EXCEPT !.count = Get(cur, "count", 0) + upd.count]


\* ------------------------------------------------- checkpointer and graph
VARIABLES
    threads,      \* self.threads: the ids handed out, in creation order
    thread_id,    \* self.thread_id (self.thread is always its string form)
    iterations,   \* self.iterations: one step counter per start-new-run
    store,        \* the checkpointer: thread id -> its log of checkpoints
    run,          \* the run_agent generator: suspended at its yield, or idle
    lastOp,       \* the handler that ran last, its inputs and its outcome
    retriever,    \* whether __init__ left self.retriever set
    tsFormat,     \* the checkpointer's id format: ISO timestamp or uuid
    budget,       \* what is left of the explored session's budget
    persisted,    \* a snapshot handed to get_disp_state checked on its own
    disp,         \* what get_disp_state returned for it
    gens          \* overlapping run_agent calls: caller -> its generator

vars == <<threads, thread_id, iterations, store, run, lastOp, retriever,
          tsFormat, budget, persisted, disp, gens>>

\* A checkpoint id (thread_ts) as its ':'-separated segments.  An ISO
\* timestamp "2024-05-31T17:33:54.5+00:00" has four, a uuid has one.
ThreadTs(fmt, tid, idx) ==
    IF fmt = "iso" THEN << <<tid, idx>>, <<33>>, <<54>>, <<0>> >>
    ELSE << <<tid, idx>> >>

Latest(log) == log[Len(log)]

Put_over_latest(log, fmt, tid, values, next, source, writes) ==
    Append(IF source = "loop" /\ writes \in Nodes
           THEN SubSeq(log, 1, Len(log) - 1) ELSE log,
           [values |-> values, next |-> next,
            step |-> IF log = <<>> THEN -1 ELSE Latest(log).step + 1,
            ts |-> ThreadTs(fmt, tid, Len(log) + 1),
            source |-> source, writes |-> writes])

\* checkpointer.put: append one checkpoint to the thread's log
Put(log, fmt, tid, values, next, source, writes) ==
    Append(log,
           [values |-> values, next |-> next,
            step |-> IF log = <<>> THEN -1 ELSE Latest(log).step + 1,
            ts |-> ThreadTs(fmt, tid, Len(log) + 1),
            source |-> source, writes |-> writes])

\* graph.get_state(thread): the latest snapshot, or the empty snapshot
GetSnapshot(log) ==
    IF log = <<>>
    THEN [values |-> EmptyValues, next |-> <<>>, step |-> -2, ts |-> <<>>,
          source |-> "none", writes |-> "none"]
    ELSE Latest(log)

RunNode(node, state, retr, llmOk, text) ==
    CASE node = "planner" -> plan_node(state, retr, llmOk, text)
      [] node = "drafter" -> draft_node(state, llmOk, text)
      [] OTHER -> finalize_node(state, llmOk, text)

\* one superstep of a thread that has a checkpoint; interrupt_after names
\* every node, so the graph stops after the node it ran
Resume(log, fmt, tid, retr, llmOk, text) ==
    LET cur == Latest(log) IN
    IF cur.next = <<>>
    THEN [log |-> log, raised |-> FALSE, ran |-> "none"]
    ELSE LET node == cur.next[1]
             r == RunNode(node, cur.values, retr, llmOk, text)
             vals == ApplyWrites(cur.values, r.update)
         IN IF r.raised
            THEN [log |-> log, raised |-> TRUE, ran |-> "none"]
            ELSE [log |-> Put(log, fmt, tid, vals, NextAfter(node, vals),
                              "loop", node),
                  raised |-> FALSE, ran |-> node]

\* graph.invoke(config, thread): config is the input dict of a new run, or
\* None (values not present) to continue from the latest checkpoint
Invoke(log, fmt, tid, config, retr, llmOk, text) ==
    IF config.present
    THEN LET base == GetSnapshot(log).values
             l1 == Put(log, fmt, tid, base, <<START>>, "input", "input")
             l2 == Put(l1, fmt, tid, ApplyWrites(base, config), <<"planner">>,
                       "loop", START)
         IN Resume(l2, fmt, tid, retr, llmOk, text)
    ELSE IF log = <<>>
         THEN [log |-> log, raised |-> TRUE, ran |-> "none"]
         ELSE Resume(log, fmt, tid, retr, llmOk, text)

UpdateState_in_place(log, fmt, tid, values, as_node) ==
    LET vals == ApplyWrites(GetSnapshot(log).values, values)
        kept == SubSeq(log, 1, Len(log) - 1)
    IN Put(kept, fmt, tid, vals, NextAfter(as_node, vals), "update", as_node)

UpdateState_keeping_next(log, fmt, tid, values, as_node) ==
    LET vals == ApplyWrites(GetSnapshot(log).values, values) IN
    Put(log, fmt, tid, vals, GetSnapshot(log).next, "update", as_node)

\* graph.update_state(thread, values, as_node): a new checkpoint whose
\* values are the latest ones with `values` written through the channels
UpdateState(log, fmt, tid, values, as_node) ==
    LET vals == ApplyWrites(GetSnapshot(log).values, values) IN
    Put(log, fmt, tid, vals, NextAfter(as_node, vals), "update", as_node)

\* the node invoke is about to run, "none" if there is none
Pending(log, config) ==
    IF config.present THEN "planner"
    ELSE IF log = <<>> \/ Latest(log).next = <<>> THEN "none"
    ELSE Latest(log).next[1]

GenTexts(node) ==
    CASE node = "planner" -> PlanTexts
      [] node = "drafter" -> DraftTexts
      [] OTHER -> CritiqueTexts


\* -------------------------------------------------- session controller
\* str(StateSnapshot.next): the text of a tuple of node names
StrOfNext(next) ==
    IF next = <<>> THEN "()"
    ELSE CASE next[1] = "planner" -> "('planner',)"
           [] next[1] = "drafter" -> "('drafter',)"
           [] next[1] = "finalizer" -> "('finalizer',)"
           [] OTHER -> "('__start__',)"

\* The forms a value read back from a checkpoint can have: an int, a str
\* (its characters), None, or no entry under the key at all.
PyInt(n) == [kind |-> "int", n |-> n, chars |-> <<>>]
PyStr(chars) == [kind |-> "str", n |-> 0, chars |-> chars]
PyNone == [kind |-> "none", n |-> 0, chars |-> <<>>]
PyMissing == [kind |-> "missing", n |-> 0, chars |-> <<>>]

\* dict.get(key, default) on such a value
PyGet(v, default) == IF v.kind = "missing" THEN default ELSE v

Digits == {"0", "1", "2", "3", "4", "5", "6", "7", "8", "9"}
DigitValue(c) ==
    CASE c = "0" -> 0 [] c = "1" -> 1 [] c = "2" -> 2 [] c = "3" -> 3
      [] c = "4" -> 4 [] c = "5" -> 5 [] c = "6" -> 6 [] c = "7" -> 7
      [] c = "8" -> 8 [] OTHER -> 9

\* str.strip() of the blanks around a numeral
RECURSIVE StripLeft(_)
StripLeft(chars) ==
    IF chars # <<>> /\ Head(chars) = " " THEN StripLeft(Tail(chars)) ELSE chars
RECURSIVE StripRight(_)
StripRight(chars) ==
    IF chars # <<>> /\ chars[Len(chars)] = " "
    THEN StripRight(SubSeq(chars, 1, Len(chars) - 1)) ELSE chars

RECURSIVE DecimalValue(_)
DecimalValue(digits) ==
    IF digits = <<>> THEN 0
    ELSE 10 * DecimalValue(SubSeq(digits, 1, Len(digits) - 1))
           + DigitValue(digits[Len(digits)])

\* int(str): [raised |-> ValueError, n |-> the value] of an optionally
\* signed decimal numeral, blanks around it ignored
IntOfStr(chars) ==
    LET body == StripRight(StripLeft(chars))
        signed == body # <<>> /\ Head(body) \in {"-", "+"}
        digits == IF signed THEN Tail(body) ELSE body
    IN IF digits = <<>> \/ \E i \in 1..Len(digits) : digits[i] \notin Digits
       THEN [raised |-> TRUE, n |-> 0]
       ELSE [raised |-> FALSE,
             n |-> IF signed /\ Head(body) = "-" THEN 0 - DecimalValue(digits)
                   ELSE DecimalValue(digits)]

IntOrZero_without_except(v) ==
    CASE v.kind = "int" -> v.n
      [] v.kind = "str" -> IF IntOfStr(v.chars).raised THEN -1
                           ELSE IntOfStr(v.chars).n
      [] OTHER -> 0

\* `int(x) if x is not None else 0` inside try/except (ValueError,
\* TypeError): 0 for None and for what int() rejects
IntOrZero(v) ==
    CASE v.kind = "int" -> v.n
      [] v.kind = "str" -> IF IntOfStr(v.chars).raised THEN 0
                           ELSE IntOfStr(v.chars).n
      [] OTHER -> 0

\* `str(x) if x is not None else ""` of the name of a node
StrOrEmpty(v) == IF v.kind = "none" THEN "" ELSE v.text

\* the name of a node as a stored value
PyText(s) == [kind |-> "text", text |-> s]
NoText == [kind |-> "none", text |-> ""]
MissingText == [kind |-> "missing", text |-> ""]

\* get_disp_state on what graph.get_state handed back: the stored lnode,
\* count and revision_number and the tuple of next nodes.  When get_state
\* itself raised (the snapshot is not readable) the outer except returns
\* the error tuple; nothing is raised to the caller either way.
DispState(snapshot, tid) ==
    IF ~snapshot.readable
    THEN [raised |-> FALSE, lnode |-> "error", nnode |-> "error",
          thread_id |-> tid, rev |-> 0, count |-> 0]
    ELSE [raised |-> FALSE,
          lnode |-> StrOrEmpty(IF snapshot.lnode.kind = "missing"
                               THEN PyText("") ELSE snapshot.lnode),
          nnode |-> StrOfNext(snapshot.next),
          thread_id |-> tid,
          rev |-> IntOrZero(PyGet(snapshot.revision_number, PyInt(0))),
          count |-> IntOrZero(PyGet(snapshot.count, PyInt(0)))]

\* the characters of a text typed into an editor tab
CharsOf(text) ==
    CASE text = "edited text" ->
           <<"e", "d", "i", "t", "e", "d", " ", "t", "e", "x", "t">>
      [] text = "other text" ->
           <<"o", "t", "h", "e", "r", " ", "t", "e", "x", "t">>
      [] OTHER -> <<>>

\* the snapshot of a thread of the checkpointer as get_disp_state reads it
Stored(cur) ==
    IF cur.values.present
    THEN [readable |-> TRUE, lnode |-> PyText(cur.values.lnode),
          count |-> PyInt(cur.values.count),
          revision_number |->
            IF IsStr(cur.values, "revision_number")
            THEN PyStr(CharsOf(StrOf(cur.values, "revision_number")))
            ELSE PyInt(cur.values.revision_number),
          next |-> cur.next]
    ELSE [readable |-> TRUE, lnode |-> MissingText, count |-> PyMissing,
          revision_number |-> PyMissing, next |-> cur.next]

\* get_disp_state: (lnode, nnode, thread_id, rev, acount) of a thread
get_disp_state(log, tid) == DispState(Stored(GetSnapshot(log)), tid)

\* list indexing as Python does it: negative indices count from the end
PyIndexOk(seq, i) == (i >= 0 /\ i < Len(seq)) \/ (i < 0 /\ -i <= Len(seq))
PyPos_of_first(seq, i) == 1
PyPos(seq, i) == IF i >= 0 THEN i + 1 ELSE Len(seq) + i + 1

\* caller-facing key -> key of AgentState
KeyMapRead_without_materials(key) ==
    CASE key = "proposal" -> "draft"
      [] OTHER -> key
KeyMapRead(key) ==
    CASE key = "proposal" -> "draft"
      [] key = "materials" -> "retrieved_docs"
      [] OTHER -> key
KeyMapWrite_unmapped_proposal(key) ==
    CASE key = "proposal" -> "plan"
      [] key = "draft" -> "draft"
      [] key = "materials" -> "retrieved_docs"
      [] OTHER -> key
KeyMapWrite(key) ==
    CASE key = "proposal" -> "draft"
      [] key = "draft" -> "draft"
      [] key = "materials" -> "retrieved_docs"
      [] OTHER -> key

\* get_state(key): the value put in the editor tab for `key`
\* "" when there is no state or when the key is no key of the state
get_state(log, key) ==
    LET cur == GetSnapshot(log)
        search_key == KeyMapRead(key)
    IN IF cur.values.present /\ search_key \in StateKeys
       THEN IF IsStr(cur.values, search_key)
            THEN StrOf(cur.values, search_key)
            ELSE cur.values[search_key]
       ELSE ""

\* one line of the history dropdown, as its ':'-separated segments
HistStr(c, tid) ==
    <<tid, Get(c.values, "count", 0), Get(c.values, "lnode", ""),
      StrOfNext(c.next), Get(c.values, "revision_number", 0)>> \o c.ts

Reverse(seq) == [i \in 1..Len(seq) |-> seq[Len(seq) + 1 - i]]
Listed(c) == c.step >= 1

\* update_hist_pd: the checkpoints of step >= 1, newest first
update_hist_pd(log, tid) ==
    LET shown == SelectSeq(Reverse(log), Listed) IN
    [i \in 1..Len(shown) |-> HistStr(shown[i], tid)]

\* hist_str.split(":")[-1]
SplitLast(hist_str) == <<hist_str[Len(hist_str)]>>

\* find_config: the position in the log of the checkpoint with this
\* thread_ts, 0 when there is none
find_config(log, thread_ts) ==
    IF \E i \in 1..Len(log) : log[i].ts = thread_ts
    THEN CHOOSE i \in 1..Len(log) : log[i].ts = thread_ts
    ELSE 0

\* the two returns after the yield: `if not nnode` and `if lnode in stop_after`
NoNextNode(nnode) == ~Truthy(nnode)
StopRequested_only_at_end(lnode, stop_after) ==
    lnode \in stop_after /\ lnode = "finalizer"
StopRequested(lnode, stop_after) == lnode \in stop_after

Idle == [pc |-> "idle", stop_after |-> {}, lnode |-> "", nnode |-> "",
         steps |-> 0]

\* What a handler hands to its caller: the tuple run_agent yields
\* (lnode, nnode, thread_id, rev, acount), the tuple copy_state returns
\* (lnode, nnode, thread_ts, rev, count), or nothing.
NoReport ==
    [kind |-> "none", lnode |-> "", nnode |-> "", thread_id |-> -1,
     ts |-> <<>>, rev |-> 0, count |-> 0]
RunReport(lnode, nnode, tid, rev, count) ==
    [kind |-> "yield", lnode |-> lnode, nnode |-> nnode, thread_id |-> tid,
     ts |-> <<>>, rev |-> rev, count |-> count]
CopyReport(lnode, nnode, ts, rev, count) ==
    [kind |-> "return", lnode |-> lnode, nnode |-> nnode, thread_id |-> -1,
     ts |-> ts, rev |-> rev, count |-> count]
ErrorReport(tid) == RunReport("error", "", tid, 0, 0)

\* lastOp: the handler, how it ended, the node it ran or wrote as, the key
\* and value it was given, the thread_ts it looked up, what it handed back
Op(op, outcome, node, key, val, ts, ret) ==
    [op |-> op, outcome |-> outcome, node |-> node, key |-> key, val |-> val,
     ts |-> ts, ret |-> ret]

InitialConfig(topic) ==
    AgentState(topic, "", "no plan", "no draft", "no critique",
               DefaultRevisionNumber, DefaultMaxRevisions, 0, <<>>)
NoConfig == EmptyValues

Budget(th, st, up, fl, keys, views) ==
    [threads |-> th, steps |-> st, updates |-> up, failures |-> fl,
     keys |-> keys, views |-> views]
Budgets == {Budget(1, RunSteps, 0, RunFailures, "tabs", 0),
            Budget(1, EditSteps, EditUpdates, 0, "tabs", 0),
            Budget(SessionThreads, SessionSteps, 0, 0, "tabs", 0),
            Budget(1, KeySteps, KeyUpdates, 0, "any", KeyViews),
            Budget(1, RewindSteps, RewindUpdates, 0, "draft tab", 0)}

\* The callers whose run_agent calls may overlap, and the generator of a
\* call: where it stands, its locals (config, stop_after, lnode, nnode),
\* the self.thread_id that `+= 1` read, the self.thread and the checkpoints
\* graph.invoke was entered with, and what its last step did: the thread
\* it began on, invoked, counted and reported, and the stage it ran.
Callers == {"a", "b"}
NoThread == -2
IdleGen ==
    [pc |-> "idle", stop_after |-> {}, config |-> NoConfig,
     seen |-> NoThread, began |-> NoThread, thread |-> NoThread,
     log |-> <<>>, lnode |-> "", nnode |-> "", invoked |-> NoThread,
     counted |-> NoThread, reported |-> NoThread, ran |-> "none"]
NoCalls == [c \in Callers |-> IdleGen]

\* the snapshot of a thread without a checkpoint, and no call made yet
NoSnapshot ==
    [readable |-> TRUE, lnode |-> MissingText, count |-> PyMissing,
     revision_number |-> PyMissing, next |-> <<>>]
NoDisp ==
    [called |-> FALSE, raised |-> FALSE, lnode |-> "", nnode |-> "",
     thread_id |-> -1, rev |-> 0, count |-> 0]

Init ==
    /\ threads = <<>>
    /\ thread_id = -1
    /\ iterations = <<>>
    /\ store = [t \in ThreadKeys |-> <<>>]
    /\ run = Idle
    /\ lastOp = Op("init", "none", "none", "", "", <<>>, NoReport)
    /\ retriever \in {"unset", "failing", "working"}
    /\ tsFormat \in {"iso", "uuid"}
    /\ budget \in Budgets
    /\ persisted = NoSnapshot
    /\ disp = NoDisp
    /\ gens = NoCalls

WithinBound_always(its, tid) == TRUE

\* the test of the while loop: the counter of the thread is below the bound
WithinBound(its, tid) == its[PyPos(its, tid)] < max_iterations

\* The while loop of run_agent from its test up to the next yield (or the
\* return), on the controller fields as the code before it left them.
Loop(op, its, tid, config, stop, steps, bud) ==
    IF ~PyIndexOk(its, tid)
    THEN \* IndexError, caught by the outer except: one error report
         /\ iterations' = its
         /\ run' = Idle
         /\ lastOp' = Op(op, "critical", "none", "", "", <<>>,
                         ErrorReport(tid))
         /\ budget' = bud
         /\ UNCHANGED store
    ELSE IF ~WithinBound(its, tid)
    THEN \* "Reached maximum iterations": return without a report
         /\ iterations' = its
         /\ run' = Idle
         /\ lastOp' = Op(op, "max_iterations", "none", "", "", <<>>,
                         NoReport)
         /\ budget' = bud
         /\ UNCHANGED store
    ELSE LET node == Pending(store[tid], config) IN
         \E text \in GenTexts(node), llmOk \in BOOLEAN :
           /\ bud.steps > 0
           /\ ~llmOk => (node \in Nodes /\ bud.failures > 0)
           /\ LET r == Invoke(store[tid], tsFormat, tid, config, retriever,
                              llmOk, text)
                  d == get_disp_state(r.log, tid)
              IN /\ store' = [store EXCEPT ![tid] = r.log]
                 /\ budget' = [bud EXCEPT
                                 !.steps = IF r.raised THEN @ ELSE @ - 1,
                                 !.failures = IF llmOk THEN @ ELSE @ - 1]
                 /\ IF r.raised
                    THEN /\ iterations' = its
                         /\ run' = Idle
                         /\ lastOp' = Op(op, "error", "none", "", "", <<>>,
                                         ErrorReport(tid))
                    ELSE /\ iterations' =
                              [its EXCEPT ![PyPos(its, tid)] = @ + 1]
                         /\ run' = [pc |-> "yielded", stop_after |-> stop,
                                    lnode |-> d.lnode, nnode |-> d.nnode,
                                    steps |-> steps + 1]
                         /\ lastOp' = Op(op, "yield", r.ran, "", "", <<>>,
                                         RunReport(d.lnode, d.nnode, tid,
                                                   d.rev, d.count))

\* run_agent(start, topic, stop_after) up to its first yield
run_agent(start, topic, stop) ==
    /\ run.pc = "idle"
    /\ UNCHANGED <<retriever, tsFormat, persisted, disp, gens>>
    /\ IF start
       THEN /\ budget.threads > 0
            /\ thread_id' = thread_id + 1
            /\ threads' = Append(threads, thread_id + 1)
            /\ Loop("start", Append(iterations, 0), thread_id + 1,
                    InitialConfig(topic), stop, 0,
                    [budget EXCEPT !.threads = @ - 1])
       ELSE /\ UNCHANGED <<threads, thread_id>>
            /\ Loop("continue", iterations, thread_id, NoConfig, stop, 0,
                    budget)

\* the generator is resumed after a yield: the two returns, then the loop
resume_agent ==
    /\ run.pc = "yielded"
    /\ UNCHANGED <<threads, thread_id, retriever, tsFormat, persisted, disp,
                   gens>>
    /\ IF NoNextNode(run.nnode)
       THEN /\ run' = Idle
            /\ lastOp' = Op("resume", "no_next", "none", "", "", <<>>,
                            NoReport)
            /\ UNCHANGED <<iterations, store, budget>>
       ELSE IF StopRequested(run.lnode, run.stop_after)
       THEN /\ run' = Idle
            /\ lastOp' = Op("resume", "stopped", "none", "", "", <<>>,
                            NoReport)
            /\ UNCHANGED <<iterations, store, budget>>
       ELSE Loop("resume", iterations, thread_id, NoConfig, run.stop_after,
                 run.steps, budget)

switch_thread(new_thread_id) ==
    /\ thread_id' = new_thread_id
    /\ lastOp' = Op("switch_thread", "done", "none", "", "", <<>>, NoReport)
    /\ UNCHANGED <<threads, iterations, store, run, retriever, tsFormat,
                   budget, persisted, disp, gens>>

\* copy_state(hist_str): restore the checkpoint a history line names
copy_state(hist_str) ==
    /\ UNCHANGED <<threads, thread_id, iterations, run, retriever, tsFormat,
                   persisted, disp, gens>>
    /\ IF hist_str = <<>>
       THEN /\ lastOp' = Op("copy_state", "empty", "none", "", "", <<>>,
                            CopyReport("", "", <<>>, 0, 0))
            /\ UNCHANGED <<store, budget>>
       ELSE LET log == store[thread_id]
                thread_ts == SplitLast(hist_str)
                at == find_config(log, thread_ts)
            IN IF at = 0
               THEN /\ lastOp' = Op("copy_state", "not_found", "none", "", "",
                                    thread_ts,
                                    CopyReport("", "", <<>>, 0, 0))
                    /\ UNCHANGED <<store, budget>>
               ELSE LET new_log == UpdateState(log, tsFormat, thread_id,
                                               log[at].values,
                                               Get(log[at].values, "lnode", ""))
                        new_state == Latest(new_log)
                    IN /\ budget.updates > 0
                       /\ budget' = [budget EXCEPT !.updates = @ - 1]
                       /\ store' = [store EXCEPT ![thread_id] = new_log]
                       /\ lastOp' =
                            Op("copy_state", "restored",
                               Get(log[at].values, "lnode", ""), "", "",
                               thread_ts,
                               CopyReport(Get(new_state.values, "lnode", ""),
                                          StrOfNext(new_state.next),
                                          new_state.ts,
                                          Get(new_state.values,
                                              "revision_number", 0),
                                          Get(new_state.values, "count", 0)))

\* updated_values: the current values with update_key set to the text of
\* the editor.  update_state drops a key that is no key of the state; a
\* text put under revision_number or max_revisions is stored as it is.
Updated(current_values, update_key, new_state) ==
    IF update_key \notin StateKeys THEN current_values
    ELSE IF update_key \in {"revision_number", "max_revisions"}
    THEN [current_values EXCEPT
            !.strs = {p \in @ : p[1] # update_key}
                       \cup {<<update_key, new_state>>}]
    ELSE [current_values EXCEPT ![update_key] = new_state]

UpdateRaises_never(current_values) == FALSE

\* On a thread without state every required key but the written one is
\* backfilled with "", and the count channel (operator.add on an int)
\* cannot add "": update_state raises TypeError.
UpdateRaises(current_values) == ~current_values.present

\* modify_state(key, asnode, new_state): overwrite one field of the latest
\* state.  When update_state raises, the handler logs it and returns.
modify_state(key, asnode, new_state) ==
    /\ UNCHANGED <<threads, thread_id, iterations, run, retriever, tsFormat,
                   persisted, disp, gens>>
    /\ LET log == store[thread_id]
           current_values == GetSnapshot(log).values
       IN IF UpdateRaises(current_values)
          THEN /\ lastOp' = Op("modify_state", "error", asnode, key,
                               new_state, <<>>, NoReport)
               /\ UNCHANGED <<store, budget>>
          ELSE /\ budget.updates > 0
               /\ budget' = [budget EXCEPT !.updates = @ - 1]
               /\ store' = [store EXCEPT ![thread_id] =
                              UpdateState(log, tsFormat, thread_id,
                                          Updated(current_values,
                                                  KeyMapWrite(key), new_state),
                                          asnode)]
               /\ lastOp' = Op("modify_state", "updated", asnode, key,
                               new_state, <<>>, NoReport)

\* the (key, as-node) pairs the Modify buttons of the editor tabs pass,
\* and pairs a caller of modify_state is free to pass
TabInputs == {<<"plan", "planner">>, <<"proposal", "drafter">>,
              <<"critique", "finalizer">>}
AnyInputs == {<<"max_revisions", "planner">>, <<"design", "drafter">>}
DraftTabInputs == {<<"proposal", "drafter">>}
ModifyInputs ==
    CASE budget.keys = "tabs" -> TabInputs
      [] budget.keys = "draft tab" -> DraftTabInputs
      [] OTHER -> AnyInputs

\* get_snapshots: the summary of every checkpoint of the current thread.
\* It shortens long texts in the values it was handed, which are copies
\* the checkpointer decoded for this call.
get_snapshots ==
    /\ budget.views > 0
    /\ budget' = [budget EXCEPT !.views = @ - 1]
    /\ lastOp' = Op("get_snapshots", "done", "none", "", "", <<>>, NoReport)
    /\ UNCHANGED <<threads, thread_id, iterations, store, run, retriever,
                   tsFormat, persisted, disp, gens>>

\* the history lines a caller can hold: the lines of any thread, or none
HistChoices ==
    {<<>>} \cup UNION {{update_hist_pd(store[t], t)[i] :
                          i \in 1..Len(update_hist_pd(store[t], t))} :
                       t \in ThreadKeys}

\* One caller at a time: a handler is started when the generator of the
\* previous run_agent call has returned.
RunAgent ==
    \E start \in BOOLEAN, topic \in Topics, stop \in StopSets :
      run_agent(start, topic, stop)
ResumeAgent == resume_agent
\* the ids a caller may hand to switch_thread: the ids of the thread
\* dropdown, and one id no run was started with
SwitchIds == {threads[i] : i \in 1..Len(threads)} \cup {Len(threads)}
SwitchThread == run.pc = "idle" /\ \E id \in SwitchIds : switch_thread(id)
CopyState == run.pc = "idle" /\ \E h \in HistChoices : copy_state(h)
ModifyState ==
    run.pc = "idle" /\ \E m \in ModifyInputs, x \in Edits :
                         modify_state(m[1], m[2], x)
GetSnapshots == run.pc = "idle" /\ get_snapshots

Next ==
    \/ RunAgent
    \/ ResumeAgent
    \/ SwitchThread
    \/ CopyState
    \/ ModifyState
    \/ GetSnapshots

Spec == Init /\ [][Next]_vars


\* ------------------------------------------- get_disp_state on its own
\* get_disp_state applied to every form the latest checkpoint of the
\* current thread can be read back in.
StoredTexts ==
    {<<>>, <<"7">>, <<"1", "2">>, <<"-", "3">>, <<" ", "4", " ">>,
     <<"N", "/", "A">>, <<"1", "a">>}
NumberForms ==
    {PyInt(n) : n \in 0..MaxStored} \cup {PyNone, PyMissing}
      \cup {PyStr(c) : c \in StoredTexts}
TextForms == {PyText(n) : n \in Nodes \cup {""}} \cup {NoText, MissingText}
NextForms == {<<>>} \cup {<<n>> : n \in Nodes}
Snapshots ==
    [readable : BOOLEAN, lnode : TextForms, count : NumberForms,
     revision_number : NumberForms, next : NextForms]

DispInit ==
    /\ threads = <<>>
    /\ thread_id \in {-1, 0}
    /\ iterations = <<>>
    /\ store = [t \in ThreadKeys |-> <<>>]
    /\ run = Idle
    /\ lastOp = Op("init", "none", "none", "", "", <<>>, NoReport)
    /\ retriever = "working"
    /\ tsFormat = "uuid"
    /\ budget = Budget(0, 0, 0, 0, "tabs", 0)
    /\ persisted \in Snapshots
    /\ disp = NoDisp
    /\ gens = NoCalls

GetDispState ==
    /\ ~disp.called
    /\ disp' = [called |-> TRUE] @@ DispState(persisted, thread_id)
    /\ UNCHANGED <<threads, thread_id, iterations, store, run, lastOp,
                   retriever, tsFormat, budget, persisted, gens>>

DispNext == GetDispState

DispSpec == DispInit /\ [][DispNext]_vars


\* ------------------------------------------- one caller consuming a run
\* A single thread driven by run_agent alone, by a caller that keeps
\* asking the generator for its next report until the generator returns.
LiveInit == Init /\ budget = Budget(1, RunSteps, 0, RunFailures, "tabs", 0)
LiveNext ==
    \/ RunAgent
    \/ ResumeAgent
\* What resuming the generator does to `run`: it returns, or it has
\* yielded one report more.  The caller iterates over the generator, so a
\* generator suspended at a yield is resumed.
Reported ==
    {"", "error"} \cup Nodes
Resumed(r) ==
    {Idle} \cup
      {[pc |-> "yielded", stop_after |-> r.stop_after, lnode |-> l,
        nnode |-> StrOfNext(n), steps |-> r.steps + 1] :
         l \in Reported, n \in NextForms}
\* the resumed generator can go on: it returns at once, or the loop test
\* fails or raises, or there is budget for one more invocation
CanResume ==
    \/ NoNextNode(run.nnode)
    \/ StopRequested(run.lnode, run.stop_after)
    \/ ~PyIndexOk(iterations, thread_id)
    \/ ~WithinBound(iterations, thread_id)
    \/ budget.steps > 0
Consume == run.pc = "yielded" /\ CanResume /\ run' \in Resumed(run)
LiveSpec == LiveInit /\ [][LiveNext]_vars /\ WF_run(Consume)


\* ------------------------------------------ overlapping run_agent calls
\* The controller takes no lock: the handlers of two callers run on worker
\* threads of the host and interleave.  A run_agent call is taken apart at
\* the places where another handler can come in between: after the read of
\* `self.thread_id += 1`, before the loop test, inside graph.invoke (which
\* reads the latest checkpoint, runs the stage and then writes), and at the
\* yield.  switch_thread and the block that writes self.thread_id,
\* self.threads and self.thread are taken as one step each, so self.thread
\* stays the string form of thread_id.
OverlapInit ==
    /\ threads = <<>>
    /\ thread_id = -1
    /\ iterations = <<>>
    /\ store = [t \in ThreadKeys |-> <<>>]
    /\ run = Idle
    /\ lastOp = Op("init", "none", "none", "", "", <<>>, NoReport)
    /\ retriever = "working"
    /\ tsFormat = "uuid"
    /\ budget = Budget(OverlapThreads, OverlapSteps, 0, 0, "tabs", 0)
    /\ persisted = NoSnapshot
    /\ disp = NoDisp
    /\ gens = NoCalls

\* the checkpoints an invocation entered with `seen` has added in `out`,
\* put after what the thread holds by now: a checkpoint is stored under
\* its own id and replaces none
Rebase(cur, seen, out, fmt, tid) ==
    cur \o [k \in 1..(Len(out) - Len(seen)) |->
              [out[Len(seen) + k] EXCEPT
                 !.ts = ThreadTs(fmt, tid, Len(cur) + k)]]

\* run_agent up to the read of self.thread_id (start) or to the loop test
enter_run_agent(c, start, topic, stop) ==
    /\ gens[c].pc = "idle"
    /\ budget.steps > 0
    /\ UNCHANGED <<threads, thread_id, store, run, lastOp, retriever,
                   tsFormat, persisted, disp>>
    /\ IF start
       THEN /\ budget.threads > 0
            /\ budget' = [budget EXCEPT !.threads = @ - 1]
            /\ iterations' = Append(iterations, 0)
            /\ gens' = [gens EXCEPT ![c] =
                          [IdleGen EXCEPT !.pc = "allocating",
                                          !.stop_after = stop,
                                          !.config = InitialConfig(topic),
                                          !.seen = thread_id]]
       ELSE /\ UNCHANGED <<budget, iterations>>
            /\ gens' = [gens EXCEPT ![c] =
                          [IdleGen EXCEPT !.pc = "testing",
                                          !.stop_after = stop,
                                          !.began = thread_id]]

\* the write of `self.thread_id += 1`, self.threads.append and self.thread
allocate_thread(c) ==
    /\ gens[c].pc = "allocating"
    /\ thread_id' = gens[c].seen + 1
    /\ threads' = Append(threads, gens[c].seen + 1)
    /\ gens' = [gens EXCEPT ![c].pc = "testing",
                            ![c].began = gens[c].seen + 1]
    /\ UNCHANGED <<iterations, store, run, lastOp, retriever, tsFormat,
                   budget, persisted, disp>>

\* the loop test, and graph.invoke(config, self.thread) reading the thread
begin_invoke(c) ==
    /\ gens[c].pc = "testing"
    /\ UNCHANGED <<threads, thread_id, iterations, store, run, lastOp,
                   retriever, tsFormat, persisted, disp>>
    /\ IF ~PyIndexOk(iterations, thread_id)
       THEN gens' = [gens EXCEPT ![c] = IdleGen] /\ UNCHANGED budget
       ELSE IF ~WithinBound(iterations, thread_id)
       THEN gens' = [gens EXCEPT ![c] = IdleGen]
            /\ UNCHANGED budget
       ELSE /\ budget.steps > 0
            /\ budget' = [budget EXCEPT !.steps = @ - 1]
            /\ gens' = [gens EXCEPT ![c].pc = "invoking",
                                    ![c].thread = thread_id,
                                    ![c].log = store[thread_id]]

\* graph.invoke running the stage and writing its checkpoint, the counter
\* of self.thread_id, get_disp_state() and the yield
end_invoke(c) ==
    LET g == gens[c] IN
    /\ g.pc = "invoking"
    /\ UNCHANGED <<threads, thread_id, run, lastOp, retriever, tsFormat,
                   budget, persisted, disp>>
    /\ \E text \in GenTexts(Pending(g.log, g.config)) :
         LET r == Invoke(g.log, tsFormat, g.thread, g.config, retriever,
                         TRUE, text)
             written == [store EXCEPT ![g.thread] =
                           Rebase(@, g.log, r.log, tsFormat, g.thread)]
             d == get_disp_state(written[thread_id], thread_id)
         IN IF r.raised
            THEN /\ gens' = [gens EXCEPT ![c] = IdleGen]
                 /\ UNCHANGED <<store, iterations>>
            ELSE /\ store' = written
                 /\ IF ~PyIndexOk(iterations, thread_id)
                    THEN /\ gens' = [gens EXCEPT ![c] = IdleGen]
                         /\ UNCHANGED iterations
                    ELSE /\ iterations' =
                              [iterations EXCEPT
                                 ![PyPos(iterations, thread_id)] = @ + 1]
                         /\ gens' = [gens EXCEPT ![c] =
                                       [g EXCEPT !.pc = "yielded",
                                                 !.config = NoConfig,
                                                 !.thread = NoThread,
                                                 !.log = <<>>,
                                                 !.lnode = d.lnode,
                                                 !.nnode = d.nnode,
                                                 !.invoked = g.thread,
                                                 !.counted = thread_id,
                                                 !.reported = thread_id,
                                                 !.ran = r.ran]]

\* the generator is asked on after its yield: the two returns
after_yield(c) ==
    /\ gens[c].pc = "yielded"
    /\ gens' = [gens EXCEPT ![c] =
                  IF NoNextNode(gens[c].nnode) THEN IdleGen
                  ELSE IF StopRequested(gens[c].lnode, gens[c].stop_after)
                  THEN IdleGen
                  ELSE [IdleGen EXCEPT !.pc = "testing",
                                       !.stop_after = gens[c].stop_after,
                                       !.seen = gens[c].seen,
                                       !.began = gens[c].began]]
    /\ UNCHANGED <<threads, thread_id, iterations, store, run, lastOp,
                   retriever, tsFormat, budget, persisted, disp>>

\* the stop_after lists of the overlapping calls: run on, or stop after
\* the planner
OverlapStops == {{}, {"planner"}}
Enter ==
    \E c \in Callers, start \in BOOLEAN, topic \in Topics,
       stop \in OverlapStops : enter_run_agent(c, start, topic, stop)
Allocate == \E c \in Callers : allocate_thread(c)
BeginInvoke == \E c \in Callers : begin_invoke(c)
EndInvoke == \E c \in Callers : end_invoke(c)
AfterYield == \E c \in Callers : after_yield(c)
\* switch_thread handled while a run_agent call is under way
SwitchBetween ==
    /\ \E c \in Callers : gens[c].pc # "idle"
    /\ \E i \in 1..Len(threads) :
         /\ threads[i] # thread_id
         /\ thread_id' = threads[i]
         /\ UNCHANGED <<threads, iterations, store, run, lastOp, retriever,
                        tsFormat, budget, persisted, disp, gens>>

OverlapNext ==
    \/ Enter
    \/ Allocate
    \/ BeginInvoke
    \/ EndInvoke
    \/ AfterYield
    \/ SwitchBetween

OverlapSpec == OverlapInit /\ [][OverlapNext]_vars


\* ------------------------------------------------------------ properties
\* the stage functions a thread has executed, in order
IsStage(c) == c.source = "loop" /\ c.writes \in Nodes
Executed(log) ==
    LET st == SelectSeq(log, IsStage) IN [i \in 1..Len(st) |-> st[i].writes]
CountOf(seq, x) == Cardinality({i \in 1..Len(seq) : seq[i] = x})
IsPrefix(a, b) == Len(a) <= Len(b) /\ \A i \in 1..Len(a) : a[i] = b[i]
\* a thread started once and advanced by run_agent only
FreshRun(log) ==
    /\ log # <<>>
    /\ \A i \in 1..Len(log) : log[i].source # "update"
    /\ Cardinality({i \in 1..Len(log) : log[i].source = "input"}) = 1
RouteOfTwo == <<"planner", "drafter", "finalizer", "drafter", "finalizer",
                "drafter">>

\* C1: a thread started fresh and advanced by run_agent alone executes
\* planner, drafter, finalizer, drafter, finalizer, drafter for
\* max_revisions = 2; it has no next node exactly when the 6th stage has
\* run, and revision_number is then 3.  For max_revisions = M the terminal
\* is reached after M+1 drafter and M finalizer executions.
C1_Routing ==
    \A t \in ThreadKeys :
      FreshRun(store[t]) =>
        LET log == store[t]
            ex == Executed(log)
            M == Latest(log).values.max_revisions
        IN /\ M = 2 => IsPrefix(ex, RouteOfTwo)
           /\ Len(ex) <= 2 * M + 2
           /\ (Latest(log).next = <<>>) <=> (Len(ex) = 2 * M + 2)
           /\ Latest(log).next = <<>> =>
                /\ CountOf(ex, "planner") = 1
                /\ CountOf(ex, "drafter") = M + 1
                /\ CountOf(ex, "finalizer") = M
                /\ Latest(log).values.revision_number = M + 1
C1_Witness ==
    \E t \in ThreadKeys :
      /\ FreshRun(store[t])
      /\ Executed(store[t]) = RouteOfTwo
      /\ Latest(store[t]).next = <<>>
      /\ Latest(store[t]).values.revision_number = 3

\* C2: every executed stage function raises the count of the thread's
\* state by exactly 1, so a fresh thread has count = k after k stages.
C2_CountByOne ==
    \A t \in ThreadKeys :
      LET log == store[t] IN
      /\ \A i \in 2..Len(log) :
           IsStage(log[i]) =>
             log[i].values.count = Get(log[i-1].values, "count", 0) + 1
      /\ FreshRun(log) => Latest(log).values.count = Len(Executed(log))

\* C3: a stage raises revision_number by exactly 1 if it is the drafter,
\* and leaves it unchanged if it is the planner or the finalizer.
C3_RevisionOnlyByDrafter ==
    \A t \in ThreadKeys :
      LET log == store[t] IN
      \A i \in 2..Len(log) :
        IsStage(log[i]) =>
          log[i].values.revision_number =
            Get(log[i-1].values, "revision_number", 0)
              + (IF log[i].writes = "drafter" THEN 1 ELSE 0)
C3_Witness ==
    \E t \in ThreadKeys :
      /\ Len(Executed(store[t])) >= 3
      /\ Latest(store[t]).writes = "finalizer"
      /\ Latest(store[t]).values.revision_number = 1

\* C4: when the step just reported left the thread without a next node,
\* the generator returns: no further invocation, report or step count.
C4_HaltsAtTerminal ==
    [][(run.pc = "yielded" /\ GetSnapshot(store[thread_id]).next = <<>>)
         => (run'.pc = "idle" /\ store' = store /\ iterations' = iterations)]_vars

\* C5: with stop_after = {planner} a start-new-run executes the planner,
\* reports drafter as next node and returns without invoking the graph
\* again; the first step of the following continue executes the drafter.
C5_InterruptAfterPlanner ==
    [][/\ (run.pc = "yielded" /\ run.stop_after = {"planner"}
             /\ lastOp.op = "start" /\ run.lnode = "planner")
          => /\ run.nnode = "('drafter',)"
             /\ run.steps = 1
             /\ run'.pc = "idle"
             /\ store' = store
             /\ iterations' = iterations
       /\ (lastOp'.op = "continue" /\ lastOp'.outcome = "yield"
             /\ GetSnapshot(store[thread_id]).writes = "planner")
          => /\ lastOp'.node = "drafter"
             /\ Executed(store'[thread_id]) =
                  Append(Executed(store[thread_id]), "drafter")]_vars
C5_Witness ==
    /\ lastOp.op = "continue"
    /\ lastOp.outcome = "yield"
    /\ lastOp.node = "drafter"
    /\ run.stop_after = {"planner"}
    /\ Executed(store[thread_id]) = <<"planner", "drafter">>

\* C6: with every node in stop_after each call executes one step, and the
\* k-th call on a fresh thread reports the k-th node of the route, the
\* number of drafts made so far and count = k.
C6_OneStepReports ==
    \A t \in ThreadKeys :
      (/\ FreshRun(store[t])
       /\ thread_id = t
       /\ run.pc = "yielded"
       /\ run.stop_after = Nodes
       /\ lastOp.node \in Nodes) =>
        LET d == get_disp_state(store[t], t)
            ex == Executed(store[t])
        IN /\ run.steps = 1
           /\ d.lnode = ex[Len(ex)]
           /\ d.rev = CountOf(ex, "drafter")
           /\ d.count = Len(ex)

\* C7: a restore keeps every line of the thread's history, in order, and
\* adds exactly one new line in front of them.
C7_RestoreAppendsOne ==
    [][(lastOp'.op = "copy_state" /\ lastOp'.outcome = "restored") =>
         LET before == update_hist_pd(store[thread_id], thread_id)
             after == update_hist_pd(store'[thread_id], thread_id)
         IN /\ Len(after) = Len(before) + 1
            /\ Tail(after) = before]_vars
C7_Witness ==
    /\ lastOp.op = "copy_state"
    /\ lastOp.outcome = "restored"
    /\ Len(update_hist_pd(store[thread_id], thread_id)) >= 3

\* C8: after a restore the latest state equals the restored checkpoint's
\* state in every field.
C8_RestoredStateEqual ==
    [][(lastOp'.op = "copy_state" /\ lastOp'.outcome = "restored") =>
         LET log == store[thread_id]
             c == log[find_config(log, lastOp'.ts)]
         IN Latest(store'[thread_id]).values = c.values]_vars

\* C9: after modify_state(key, as-node, X) on a thread that has a state,
\* get_state(key) returns X, for plan, proposal and critique.
C9_WriteThenRead ==
    (/\ lastOp.op = "modify_state"
     /\ lastOp.outcome = "updated"
     /\ lastOp.key \in {"plan", "proposal", "critique"}) =>
      get_state(store[thread_id], lastOp.key) = lastOp.val
C9_Witness ==
    /\ lastOp.op = "modify_state"
    /\ lastOp.outcome = "updated"
    /\ lastOp.key = "proposal"
    /\ Latest(store[thread_id]).values.draft = "other text"

\* C10: modify_state changes the addressed field only: every other field
\* of the latest state keeps the value it had before the call.
OtherKeys(key) ==
    {"task", "lnode", "plan", "draft", "critique", "revision_number",
     "max_revisions", "count", "retrieved_docs"} \ {KeyMapWrite(key)}
C10_OnlyAddressedField ==
    [][(lastOp'.op = "modify_state" /\ lastOp'.outcome = "updated") =>
         \A k \in OtherKeys(lastOp'.key) :
           Latest(store'[thread_id]).values[k] =
             Latest(store[thread_id]).values[k]]_vars

\* C11: get_disp_state never raises on malformed persisted data: when the
\* stored revision_number (or count) is missing, None or a non-numeric
\* placeholder it returns 0 for that field, and it returns the other
\* fields as they are stored.
NonNumericTexts == {<<>>, <<"N", "/", "A">>, <<"1", "a">>}
Malformed(v) ==
    v.kind \in {"missing", "none"}
      \/ (v.kind = "str" /\ v.chars \in NonNumericTexts)
C11_DispStateTolerant ==
    (disp.called /\ persisted.readable) =>
      /\ ~disp.raised
      /\ Malformed(persisted.revision_number) => disp.rev = 0
      /\ Malformed(persisted.count) => disp.count = 0
      /\ persisted.revision_number.kind = "int" =>
            disp.rev = persisted.revision_number.n
      /\ persisted.count.kind = "int" => disp.count = persisted.count.n
      /\ persisted.lnode.kind = "text" => disp.lnode = persisted.lnode.text
      /\ disp.nnode = StrOfNext(persisted.next)
      /\ disp.thread_id = thread_id
C11_Witness ==
    /\ disp.called
    /\ persisted.readable
    /\ persisted.revision_number = PyStr(<<"N", "/", "A">>)
    /\ persisted.count = PyInt(2)
    /\ persisted.lnode = PyText("drafter")
    /\ disp.rev = 0
    /\ disp.count = 2
    /\ disp.lnode = "drafter"

\* C12: every start of a new run allocates an id greater than every id
\* already in the thread registry, so the registry never holds an id
\* twice and a new run never reuses the log or the step counter of an
\* existing thread.
C12_FreshThreadIds ==
    \A i, j \in 1..Len(threads) : i < j => threads[i] < threads[j]

\* C13: switch_thread with an id no start-new-run created fails with an
\* InvalidThread outcome and leaves the current thread unchanged; only ids
\* of the registry become the current thread.
Registered(id) == \E i \in 1..Len(threads) : threads[i] = id
C13_SwitchOnlyToRegistered ==
    [][lastOp'.op = "switch_thread" =>
         \/ Registered(thread_id')
         \/ (lastOp'.outcome = "invalid_thread" /\ thread_id' = thread_id)]_vars

\* C14: a continue request made while no thread was ever started behaves
\* as a start-new-run: it allocates a thread and invokes the planner,
\* instead of reporting an error for the missing thread.
C14_ContinueWithoutThreadStarts ==
    [][(lastOp'.op = "continue" /\ threads = <<>>) =>
         /\ Len(threads') = 1
         /\ lastOp'.outcome # "critical"
         /\ lastOp'.outcome = "yield" => lastOp'.node = "planner"]_vars

\* C15: when the generation call of a stage fails, the run reports
\* lnode = "error" with an empty next node for that step and halts
\* without executing a further step.
GenerationFailed == budget'.failures < budget.failures
C15_FailureReportedAsError ==
    [][GenerationFailed =>
         /\ lastOp'.ret = ErrorReport(thread_id')
         /\ run'.pc = "idle"]_vars

\* C16: a failed stage invocation appends no checkpoint of that stage and
\* leaves the latest state of the thread as it was before the step.
C16_FailureWritesNothing ==
    [][GenerationFailed =>
         /\ Executed(store'[thread_id']) = Executed(store[thread_id'])
         /\ lastOp'.op # "start" => store' = store]_vars

\* C17: after a run halted with an error report the session stays
\* usable: a following continue re-executes the pending node from the
\* latest checkpoint, a following start-new-run is accepted and invokes
\* the planner on its thread, and a following copy_state of a checkpoint
\* of the thread restores it.
HaltedWithError == lastOp.outcome \in {"error", "critical"}
C17_UsableAfterError ==
    [][HaltedWithError =>
         /\ (lastOp'.op = "continue"
               /\ Pending(store[thread_id], NoConfig) \in Nodes) =>
              /\ lastOp'.outcome \in {"yield", "error"}
              /\ lastOp'.outcome = "yield" =>
                   /\ lastOp'.node = Pending(store[thread_id], NoConfig)
                   /\ Len(store'[thread_id]) = Len(store[thread_id]) + 1
                   /\ IsPrefix(store[thread_id], store'[thread_id])
         /\ lastOp'.op = "start" =>
              /\ lastOp'.outcome \in {"yield", "error"}
              /\ lastOp'.outcome = "yield" => lastOp'.node = "planner"
         /\ (lastOp'.op = "copy_state"
               /\ find_config(store[thread_id], lastOp'.ts) # 0) =>
              lastOp'.outcome = "restored"]_vars

\* C18: copy_state with a checkpoint id that is not in the history of the
\* current thread appends nothing and reports an explicit failure, which
\* differs from what it returns when no history line was selected.
C18_NotFoundReported ==
    [][(lastOp'.op = "copy_state" /\ lastOp'.ts # <<>>
          /\ find_config(store[thread_id], lastOp'.ts) = 0) =>
         /\ store' = store
         /\ lastOp'.ret # CopyReport("", "", <<>>, 0, 0)]_vars

C20_StepBoundReported ==
    (lastOp.outcome = "max_iterations") => lastOp.ret # NoReport

\* C21: get_state and modify_state map a caller's key with the same table:
\* "proposal" to draft, "materials" to retrieved_docs, every other key
\* ("design" too) to itself; a write through a key lands in the field the
\* table names, where a read through the same key finds it, and a write
\* through "design" lands in no field.
CallerKeys ==
    {"plan", "proposal", "design", "draft", "critique", "materials", "task",
     "max_revisions"}
KeyTable(key) ==
    CASE key = "proposal" -> "draft"
      [] key = "materials" -> "retrieved_docs"
      [] OTHER -> key
TextKeys == {"task", "plan", "draft", "critique"}
Modified == lastOp.op = "modify_state" /\ lastOp.outcome = "updated"
OfInputOrEntry(c) == c.source = "input" \/ c.writes = START
OfStageOrUpdate(c) == ~OfInputOrEntry(c)
C22_HistoryListsStagesAndUpdates ==
    LET log == store[thread_id]
        expected == SelectSeq(Reverse(log), OfStageOrUpdate)
    IN update_hist_pd(log, thread_id) =
         [i \in 1..Len(expected) |-> HistStr(expected[i], thread_id)]

\* C23: a failing retrieval does not reach the workflow: when the retriever
\* was never set up, or its call raises, the planner step of a new run
\* still completes (no generation failure assumed) and stores no documents.
PlannerInvoked == lastOp'.op = "start" /\ lastOp'.outcome \in {"yield", "error"}
C23_RetrievalFailureTolerated ==
    [][(/\ PlannerInvoked
        /\ retriever \in {"unset", "failing"}
        /\ ~GenerationFailed) =>
         /\ lastOp'.outcome = "yield"
         /\ lastOp'.node = "planner"
         /\ Latest(store'[thread_id']).values.retrieved_docs = <<>>]_vars

\* C24: the next node stored with the checkpoint of an executed stage
\* depends on that stage and the state it left only: drafter after planner
\* and after finalizer; after drafter no node when revision_number >
\* max_revisions and finalizer otherwise, and no node when the comparison
\* fails (an int against a str).  No stage is followed by the planner: the
\* planner runs only right after the entry checkpoint of a run.
Incomparable(values) ==
    IsStr(values, "revision_number") # IsStr(values, "max_revisions")
BothInt(values) ==
    ~IsStr(values, "revision_number") /\ ~IsStr(values, "max_revisions")
C24_NextNodeByLastNode ==
    \A t \in ThreadKeys :
      LET log == store[t] IN
      \A i \in 1..Len(log) :
        IsStage(log[i]) =>
          LET c == log[i] IN
          /\ c.values.lnode = c.writes
          /\ c.next # <<"planner">>
          /\ c.writes \in {"planner", "finalizer"} => c.next = <<"drafter">>
          /\ c.writes = "planner" => (i > 1 /\ log[i-1].writes = START)
          /\ (c.writes = "drafter" /\ Incomparable(c.values)) => c.next = <<>>
          /\ (c.writes = "drafter" /\ BothInt(c.values)) =>
               c.next = IF c.values.revision_number > c.values.max_revisions
                        THEN <<>> ELSE <<"finalizer">>
C24_Witness ==
    /\ lastOp.op = "continue"
    /\ lastOp.node = "drafter"
    /\ Incomparable(Latest(store[thread_id]).values)
    /\ Latest(store[thread_id]).next = <<>>
    /\ Latest(store[thread_id]).values.revision_number = 1

\* C25: the checkpoint log of every thread only grows: whatever handler
\* runs (a stage step, copy_state, modify_state, the history listing, the
\* snapshot summary, switch_thread), the log a thread had before is a
\* prefix of the log it has after, checkpoint by checkpoint.
C25_LogAppendOnly ==
    [][\A t \in ThreadKeys : IsPrefix(store[t], store'[t])]_vars
C25_Witness ==
    /\ lastOp.op = "get_snapshots"
    /\ Len(store[thread_id]) = 4
    /\ Latest(store[thread_id]).source = "update"
    /\ store[thread_id][3].writes = "planner"

\* C26: threads are isolated: a handler changes the log and the step
\* counter of the thread it works on only, and a new run started after
\* switching back to an older thread gets a log of its own, never the log
\* of a thread created before.
C26_ThreadsIsolated ==
    [][/\ \A t \in ThreadKeys : t # thread_id' => store'[t] = store[t]
       /\ \A i \in 1..Len(iterations) :
            i - 1 # thread_id' => iterations'[i] = iterations[i]
       /\ lastOp'.op = "start" => store[thread_id'] = <<>>]_vars

\* C27: no executed stage lowers revision_number (the checkpoint of a
\* stage holds a revision_number that is an integer not below that of the
\* checkpoint before it), modify_state on another field leaves it as it
\* is, and copy_state sets it to the revision_number of the checkpoint it
\* restores, which may be lower than the latest one.
IntRev(c) == ~IsStr(c.values, "revision_number")
C27_RevisionKeptExceptByRestore ==
    [][/\ \A t \in ThreadKeys :
            \A i \in 2..Len(store'[t]) :
              IsStage(store'[t][i]) =>
                /\ IntRev(store'[t][i])
                /\ store'[t][i].values.revision_number
                     >= Get(store'[t][i-1].values, "revision_number", 0)
       /\ (/\ lastOp'.op = "modify_state"
           /\ lastOp'.outcome = "updated"
           /\ KeyMapWrite(lastOp'.key) # "revision_number") =>
            /\ IntRev(Latest(store'[thread_id]))
            /\ Latest(store'[thread_id]).values.revision_number
                 = Latest(store[thread_id]).values.revision_number
       /\ (lastOp'.op = "copy_state" /\ lastOp'.outcome = "restored") =>
            LET log == store[thread_id]
                c == log[find_config(log, lastOp'.ts)]
            IN Latest(store'[thread_id]).values.revision_number
                 = Get(c.values, "revision_number", 0)]_vars
C27_Witness ==
    /\ lastOp.op = "copy_state"
    /\ lastOp.outcome = "restored"
    /\ Len(store[thread_id]) = 6
    /\ store[thread_id][5].writes = "finalizer"
    /\ store[thread_id][5].values.revision_number = 1
    /\ Latest(store[thread_id]).values.revision_number = 0
\* C27 as stated: the revision_number of the latest state of a thread
\* never decreases, whatever handler runs.
C27_RevisionNeverDecreases ==
    [][\A t \in ThreadKeys :
         store[t] # <<>> =>
           Get(Latest(store'[t]).values, "revision_number", 0)
             >= Get(Latest(store[t]).values, "revision_number", 0)]_vars

\* C28: max_revisions never changes within a thread: in every thread the
\* latest state holds, as an integer, the max_revisions of the first
\* checkpoint that has a state, whatever stages ran and whatever
\* copy_state and modify_state (with any key) were called with.
WithState(log) == {i \in 1..Len(log) : log[i].values.present}
FirstWithState(log) ==
    log[CHOOSE i \in WithState(log) : \A j \in WithState(log) : i <= j]
C28_MaxRevisionsImmutable ==
    \A t \in ThreadKeys :
      WithState(store[t]) # {} =>
        /\ ~IsStr(Latest(store[t]).values, "max_revisions")
        /\ Latest(store[t]).values.max_revisions
             = FirstWithState(store[t]).values.max_revisions

\* C29: the planner stores what the retrieval gave; a drafter or a
\* finalizer step, failed generation included, leaves retrieved_docs, task
\* and plan as the checkpoint before had them; the finalizer leaves draft
\* and the drafter leaves critique as they were.
C29_DocsWrittenOnce ==
    \A t \in ThreadKeys :
      LET log == store[t] IN
      \A i \in 2..Len(log) :
        LET c == log[i].values
            b == log[i-1].values
        IN /\ (IsStage(log[i]) /\ log[i].writes = "planner") =>
                c.retrieved_docs =
                  IF retriever = "working" THEN FoundDocs ELSE <<>>
           /\ (IsStage(log[i]) /\ log[i].writes \in {"drafter", "finalizer"}) =>
                /\ b.present
                /\ c.retrieved_docs = b.retrieved_docs
                /\ c.task = b.task
                /\ c.plan = b.plan
                /\ log[i].writes = "finalizer" => c.draft = b.draft
                /\ log[i].writes = "drafter" => c.critique = b.critique
C29_Witness ==
    \E t \in ThreadKeys :
      \E i \in 2..Len(store[t]) :
        /\ IsStage(store[t][i])
        /\ store[t][i].writes = "drafter"
        /\ store[t][i].values.draft = "Error occurred during content generation."
        /\ store[t][i].values.retrieved_docs = FoundDocs
        /\ store[t][i].values.retrieved_docs # <<>>
        /\ store[t][i].values.critique = "no critique"

\* C30: no partial states: the checkpoint of every executed stage and of
\* every modify_state holds every field of the state, with integers under
\* revision_number, max_revisions and count, and a stage's checkpoint
\* names that stage in lnode.
C30_NoPartialStates ==
    \A t \in ThreadKeys :
      \A i \in 1..Len(store[t]) :
        LET c == store[t][i] IN
        (IsStage(c) \/ c.source = "update") =>
          /\ c.values.present
          /\ StateKeys \subseteq DOMAIN c.values
          /\ c.values.strs = {}
          /\ c.values.revision_number \in Nat
          /\ c.values.max_revisions \in Nat
          /\ c.values.count \in Nat
          /\ IsStage(c) => c.values.lnode = c.writes

\* C34: the step budget is counted per thread and never given back: no
\* counter decreases or passes max_iterations, copy_state and modify_state
\* leave the counters alone, a stage runs on a thread only while the
\* counter of that thread is below max_iterations and raises it by one, so
\* a thread never holds more stage checkpoints than its counter says.
Counter(its, t) == IF t >= 0 /\ t < Len(its) THEN its[t + 1] ELSE 0
StagesOf(log) == Len(Executed(log))
Endings == {"stopped", "no_next", "error", "critical", "max_iterations"}
C35_CallTerminates ==
    /\ [](run.steps <= max_iterations)
    /\ [][(run.pc = "yielded" /\ run'.pc = "idle") =>
            lastOp'.outcome \in Endings]_vars
    /\ (run.pc = "yielded") ~> (run.pc = "idle")
C35_Witness ==
    /\ lastOp.op = "resume"
    /\ lastOp.outcome = "max_iterations"
    /\ run.pc = "idle"
    /\ Counter(iterations, thread_id) = max_iterations

\* C36: copy_state rewinds the routing to the node of record: after the
\* restore of a checkpoint c that names a stage in lnode, the next node of
\* the thread is the successor of that stage by the edges of the graph on
\* the restored state, and the first step of a following run executes it;
\* it is the next node recorded for c when a stage wrote c.
RuleNext(node, values) ==
    CASE node \in {"planner", "finalizer"} -> <<"drafter">>
      [] node = "drafter" /\ Incomparable(values) -> <<>>
      [] node = "drafter" /\ BothInt(values) ->
           IF values.revision_number > values.max_revisions
           THEN <<>> ELSE <<"finalizer">>
      [] OTHER -> <<>>
Restored == lastOp'.op = "copy_state" /\ lastOp'.outcome = "restored"
RestoredFrom == store[thread_id][find_config(store[thread_id], lastOp'.ts)]
C36_RestoreRewindsToNodeOfRecord ==
    [][/\ (Restored /\ RestoredFrom.values.lnode \in Nodes) =>
            /\ Latest(store'[thread_id]).next =
                 RuleNext(RestoredFrom.values.lnode,
                          Latest(store'[thread_id]).values)
            /\ IsStage(RestoredFrom) =>
                 Latest(store'[thread_id]).next = RestoredFrom.next
       /\ (/\ lastOp.op = "copy_state"
           /\ lastOp.outcome = "restored"
           /\ lastOp'.op = "continue"
           /\ lastOp'.outcome = "yield"
           /\ Latest(store[thread_id]).next # <<>>) =>
            lastOp'.node = Latest(store[thread_id]).next[1]]_vars
C36_Witness ==
    LET log == store[thread_id] IN
    /\ lastOp.op = "copy_state"
    /\ lastOp.outcome = "restored"
    /\ Len(log) = 5
    /\ lastOp.ts = log[4].ts
    /\ log[4].source = "update"
    /\ log[4].next = <<"finalizer">>
    /\ log[5].next = <<"drafter">>
\* C36 as stated: after a restore the next node of the thread is the next
\* node recorded for the restored checkpoint.
C36_RestoreKeepsRecordedNext ==
    [][Restored => Latest(store'[thread_id]).next = RestoredFrom.next]_vars

\* C37: after modify_state(key, asnode, v) the next node of the thread is
\* the successor of asnode by the edges of the graph on the overwritten
\* state, whichever node was pending before, and lnode is what it was.
C37_ModifyRoutesFromAsNode ==
    [][(lastOp'.op = "modify_state" /\ lastOp'.outcome = "updated") =>
         /\ Latest(store'[thread_id]).next =
              RuleNext(lastOp'.node, Latest(store'[thread_id]).values)
         /\ Latest(store'[thread_id]).values.lnode =
              Latest(store[thread_id]).values.lnode]_vars
C37_Witness ==
    LET log == store[thread_id] IN
    /\ lastOp.op = "modify_state"
    /\ lastOp.outcome = "updated"
    /\ lastOp.node = "finalizer"
    /\ Len(log) = 5
    /\ log[4].next = <<"finalizer">>
    /\ log[5].next = <<"drafter">>
    /\ log[5].values.lnode = "drafter"

\* C38: every line of the history of the current thread leads back to its
\* checkpoint: the text after the last ':' of the line is the thread_ts of
\* the checkpoint the line was made from, and find_config finds that
\* checkpoint by it, also when the thread_ts holds a ':' itself.
C38_HistoryRoundTrip ==
    LET log == store[thread_id] IN
    \A i \in 1..Len(log) :
      Listed(log[i]) =>
        /\ SplitLast(HistStr(log[i], thread_id)) = log[i].ts
        /\ find_config(log, SplitLast(HistStr(log[i], thread_id))) = i

\* C33: run_agent hands out one report per executed stage, the report of a
\* stage before the next stage is invoked: every step that leaves the
\* generator at its yield has run one stage of the reported thread and has
\* written its checkpoint, a call that has handed out k reports has run k
\* stages, the last of them the one the latest checkpoint was written by.
C33_ReportPerExecutedStep ==
    [][run'.pc = "yielded" =>
         /\ lastOp'.outcome = "yield"
         /\ lastOp'.node \in Nodes
         /\ run'.steps = (IF run.pc = "yielded" THEN run.steps ELSE 0) + 1
         /\ StagesOf(store'[thread_id']) = StagesOf(store[thread_id']) + 1
         /\ Latest(store'[thread_id']).writes = lastOp'.node]_vars

\* C31: within one thread stages never run concurrently and never twice
\* from the same checkpoint: two run_agent calls are never inside
\* graph.invoke on the same thread at once, an invocation under way still
\* sees the checkpoints it was entered with as the latest of its thread
\* (step N+1 starts after the checkpoint of step N is written), and no two
\* stage checkpoints of a thread carry the same step number.
Invoking(c) == gens[c].pc = "invoking"
C31_StagesOneAtATime ==
    /\ \A c, d \in Callers :
         (c # d /\ Invoking(c) /\ Invoking(d)) =>
           gens[c].thread # gens[d].thread
    /\ \A c \in Callers :
         Invoking(c) => gens[c].log = store[gens[c].thread]
    /\ \A t \in ThreadKeys : \A i, j \in 1..Len(store[t]) :
         (i < j /\ IsStage(store[t][i]) /\ IsStage(store[t][j])) =>
           store[t][i].step # store[t][j].step

\* C32: a run_agent call that began on thread T invokes the graph on,
\* counts the step for, and reports the id (and with it the state) of
\* thread T at each of its steps, whatever switch_thread or another
\* caller's start did in between; and two start-new-run calls under way at
\* once have obtained distinct thread ids.
Started(c) == gens[c].seen # NoThread /\ gens[c].began # NoThread
C32_CallKeepsItsThread ==
    /\ \A c \in Callers :
         gens[c].pc = "yielded" =>
           /\ gens[c].invoked = gens[c].began
           /\ gens[c].counted = gens[c].began
           /\ gens[c].reported = gens[c].began
    /\ \A c, d \in Callers :
         (c # d /\ Started(c) /\ Started(d)) =>
           gens[c].began # gens[d].began

====
